---- MODULE Spec2Model ----
(***************************************************************************)
(* WordRush (src/main.py): the Wordle-style feedback engine, the points    *)
(* formula, the chat-scoped game sessions kept in the active_games         *)
(* collection and the leaderboard kept in the leaderboard collection.      *)
(*                                                                         *)
(* A Python str is a sequence of one-character strings.  The three         *)
(* feedback emoji of get_feedback are GREEN, YELLOW and RED.               *)
(***************************************************************************)
EXTENDS Integers, Sequences, FiniteSets, TLC

VARIABLES
    words_by_length, \* the dict WORDS_BY_LENGTH the module built when it was loaded
    mongo_manager,  \* TRUE when the module-level MongoDBManager was built (main.py 187-196)
    games,          \* active_games collection: chat_id -> document, or None
    leaderboard,    \* leaderboard collection: user_id -> document, or None
    known_chats,    \* known_chats collection: chat_id -> document, or None
    now,            \* datetime.now(timezone.utc), in days
    last,           \* what the handler that ran last did and replied
    pre,            \* the collections before that handler ran, and the text it got
    accepted,       \* per chat: guesses accepted since the session was created
    finished,       \* per chat: how its last session ended, "none" while it runs
    tasks,          \* guess updates in flight: their position in handle_guess
    fb,             \* one evaluation of get_feedback: its arguments and result
    pts             \* calculate_points called for two guess counts: arguments, results

vars ==
    <<words_by_length, mongo_manager, games, leaderboard, known_chats, now, last, pre,
      accepted, finished, tasks, fb, pts>>

None == [none |-> TRUE]

Range(s) == {s[i] : i \in 1..Len(s)}

Max(a, b) == IF a >= b THEN a ELSE b

Min(a, b) == IF a <= b THEN a ELSE b

\* ------------------------------------------------------------------ str

LOWERCASE ==
    <<"a","b","c","d","e","f","g","h","i","j","k","l","m",
      "n","o","p","q","r","s","t","u","v","w","x","y","z">>

UPPERCASE ==
    <<"A","B","C","D","E","F","G","H","I","J","K","L","M",
      "N","O","P","Q","R","S","T","U","V","W","X","Y","Z">>

\* str.isalpha on one character
isalpha(c) == c \in Range(LOWERCASE) \cup Range(UPPERCASE)

upper_char(c) ==
    IF c \in Range(LOWERCASE)
    THEN UPPERCASE[CHOOSE i \in 1..Len(LOWERCASE) : LOWERCASE[i] = c]
    ELSE c

\* str.upper leaving every character as it is
upper_unchanged(s) == s

\* str.upper
upper(s) == [i \in 1..Len(s) |-> upper_char(s[i])]

\* str.lower
lower_char(c) ==
    IF c \in Range(UPPERCASE)
    THEN LOWERCASE[CHOOSE i \in 1..Len(UPPERCASE) : UPPERCASE[i] = c]
    ELSE c

lower(s) == [i \in 1..Len(s) |-> lower_char(s[i])]

\* ---------------------------------------------------------- get_feedback

GREEN == "green"

YELLOW == "yellow"

RED == "red"

\* main.py 204-207: remaining_letters, the letter counts of the secret word
InitRemaining(secret_word) ==
    [c \in Range(secret_word) |->
        Cardinality({i \in 1..Len(secret_word) : secret_word[i] = c})]

\* main.py 202-207: the state before the first pass
FeedbackStartBlank(secret_word) ==
    [feedback |-> [i \in 1..Len(secret_word) |-> ""],
     remaining_letters |-> InitRemaining(secret_word)]

FeedbackStart(secret_word) ==
    [feedback |-> [i \in 1..Len(secret_word) |-> RED],
     remaining_letters |-> InitRemaining(secret_word)]

\* main.py 211-213: one iteration of the first loop (i is 1-based here)
FirstPassStepSwapped(secret_word, guess, st, i) ==
    IF i <= Len(guess) /\ guess[i] = secret_word[i]
    THEN [feedback |-> [st.feedback EXCEPT ![i] = YELLOW],
          remaining_letters |-> [st.remaining_letters EXCEPT ![guess[i]] = @ - 1]]
    ELSE st

FirstPassStepNoDecrement(secret_word, guess, st, i) ==
    IF i <= Len(guess) /\ guess[i] = secret_word[i]
    THEN [feedback |-> [st.feedback EXCEPT ![i] = GREEN],
          remaining_letters |-> st.remaining_letters]
    ELSE st

FirstPassStepFromSecond(secret_word, guess, st, i) ==
    IF i > 1 /\ i <= Len(guess) /\ guess[i] = secret_word[i]
    THEN [feedback |-> [st.feedback EXCEPT ![i] = GREEN],
          remaining_letters |-> [st.remaining_letters EXCEPT ![guess[i]] = @ - 1]]
    ELSE st

FirstPassStep(secret_word, guess, st, i) ==
    IF i <= Len(guess) /\ guess[i] = secret_word[i]
    THEN [feedback |-> [st.feedback EXCEPT ![i] = GREEN],
          remaining_letters |-> [st.remaining_letters EXCEPT ![guess[i]] = @ - 1]]
    ELSE st

\* main.py 210-213: the state after n iterations of the first loop
RECURSIVE FirstPass(_, _, _)
FirstPass(secret_word, guess, n) ==
    IF n = 0
    THEN FeedbackStart(secret_word)
    ELSE FirstPassStep(secret_word, guess, FirstPass(secret_word, guess, n - 1), n)

\* main.py 217-221: one iteration of the second loop
SecondPassStepNoDecrement(secret_word, guess, st, i) ==
    IF st.feedback[i] = RED /\ i <= Len(guess)
    THEN LET letter == guess[i] IN
         IF letter \in DOMAIN st.remaining_letters /\ st.remaining_letters[letter] > 0
         THEN [feedback |-> [st.feedback EXCEPT ![i] = YELLOW],
               remaining_letters |-> st.remaining_letters]
         ELSE st
    ELSE st

\* main.py 217-221 without the test remaining_letters[letter] > 0
SecondPassStepAnyCount(secret_word, guess, st, i) ==
    IF st.feedback[i] = RED /\ i <= Len(guess)
    THEN LET letter == guess[i] IN
         IF letter \in DOMAIN st.remaining_letters
         THEN [feedback |-> [st.feedback EXCEPT ![i] = YELLOW],
               remaining_letters |-> [st.remaining_letters EXCEPT ![letter] = @ - 1]]
         ELSE st
    ELSE st

SecondPassStep(secret_word, guess, st, i) ==
    IF st.feedback[i] = RED /\ i <= Len(guess)
    THEN LET letter == guess[i] IN
         IF letter \in DOMAIN st.remaining_letters /\ st.remaining_letters[letter] > 0
         THEN [feedback |-> [st.feedback EXCEPT ![i] = YELLOW],
               remaining_letters |-> [st.remaining_letters EXCEPT ![letter] = @ - 1]]
         ELSE st
    ELSE st

\* main.py 216-221: the state after the first pass and n iterations of the second
RECURSIVE SecondPass(_, _, _)
SecondPass(secret_word, guess, n) ==
    IF n = 0
    THEN FirstPass(secret_word, guess, Len(secret_word))
    ELSE SecondPassStep(secret_word, guess, SecondPass(secret_word, guess, n - 1), n)

\* main.py 200-223
get_feedback(secret_word, guess) ==
    SecondPass(secret_word, guess, Len(secret_word)).feedback

\* ---------------------------------------------------------- configuration

\* main.py 31-36
DIFFICULTY_CONFIG ==
    [easy    |-> [length |-> 4, max_guesses |-> 30, base_points |-> 5],
     medium  |-> [length |-> 5, max_guesses |-> 30, base_points |-> 10],
     hard    |-> [length |-> 8, max_guesses |-> 30, base_points |-> 20],
     extreme |-> [length |-> 8, max_guesses |-> 30, base_points |-> 50]]

GAME == <<"G","A","M","E">>

WORD == <<"W","O","R","D">>

LAKE == <<"L","A","K","E">>

APPLE == <<"A","P","P","L","E">>

PAPER == <<"P","A","P","E","R">>

FOOTBALL == <<"F","O","O","T","B","A","L","L">>

KEYBOARD == <<"K","E","Y","B","O","A","R","D">>

\* main.py 39-51: words of the list, of each of its three lengths
RAW_WORDS == <<GAME, WORD, APPLE, FOOTBALL>>

\* main.py 55: "".join(filter(str.isalpha, word.upper()))
RECURSIVE FilterAlpha(_)
FilterAlpha(s) ==
    IF s = <<>> THEN <<>>
    ELSE (IF isalpha(Head(s)) THEN <<Head(s)>> ELSE <<>>) \o FilterAlpha(Tail(s))

cleaned_word(word) == FilterAlpha(upper(word))

ConfigLengths == {DIFFICULTY_CONFIG[d].length : d \in DOMAIN DIFFICULTY_CONFIG}

\* main.py 53-58: the cleaned words, by length, in list order; a length with no
\* word has no key
BuildWordsByLengthRaw(raw_words) ==
    LET kept(n) == SelectSeq(raw_words, LAMBDA w : Len(cleaned_word(w)) = n)
    IN [n \in {m \in ConfigLengths : m <= 8 /\ kept(m) # <<>>} |-> kept(n)]

BuildWordsByLength(raw_words) ==
    LET kept(n) == SelectSeq([i \in 1..Len(raw_words) |-> cleaned_word(raw_words[i])],
                             LAMBDA w : Len(w) = n)
    IN [n \in {m \in ConfigLengths : m <= 8 /\ kept(m) # <<>>} |-> kept(n)]

WORDS_BY_LENGTH == BuildWordsByLength(RAW_WORDS)

\* main.py 225-231
calculate_points_unfloored(difficulty, guesses) ==
    DIFFICULTY_CONFIG[difficulty].base_points + (10 - (guesses - 1) * 2)

calculate_points_flat(difficulty, guesses) ==
    DIFFICULTY_CONFIG[difficulty].base_points

calculate_points(difficulty, guesses) ==
    LET config == DIFFICULTY_CONFIG[difficulty]
        base == config.base_points
        bonus == Max(0, 10 - (guesses - 1) * 2)
    IN base + bonus

\* ---------------------------------------- calculate_points, evaluated alone

PtsIdle == [difficulty |-> "easy", guesses |-> 1, later |-> 1, done |-> FALSE,
            points |-> 0, later_points |-> 0]

\* main.py 225-231: calculate_points called for a guess count and for a later one
Score ==
    /\ ~pts.done
    /\ pts' = [pts EXCEPT !.done = TRUE,
                          !.points = calculate_points(pts.difficulty, pts.guesses),
                          !.later_points = calculate_points(pts.difficulty, pts.later)]
    /\ UNCHANGED <<finished, words_by_length, mongo_manager, games, leaderboard,
                   known_chats, now, last, pre, accepted, tasks, fb>>

\* -------------------------------------------- get_feedback, evaluated alone

\* letters and longest word of the evaluations of get_feedback explored
FeedbackLetters == {"A", "P", "E"}

MaxLen == 3

FeedbackWords == UNION {[1..k -> FeedbackLetters] : k \in 1..MaxLen}

FeedbackInputs ==
    (FeedbackWords \X FeedbackWords)
        \cup {<<APPLE, PAPER>>, <<GAME, WORD>>, <<GAME, GAME>>, <<FOOTBALL, KEYBOARD>>,
              <<FOOTBALL, FOOTBALL>>}

FbIdle == [secret |-> <<>>, guess |-> <<>>, done |-> FALSE, result |-> <<>>]

\* main.py 200-223: one call of get_feedback
Evaluate ==
    /\ ~fb.done
    /\ fb' = [fb EXCEPT !.done = TRUE, !.result = get_feedback(fb.secret, fb.guess)]
    /\ UNCHANGED <<finished, words_by_length, pts, mongo_manager, games, leaderboard,
                   known_chats, now, last, pre, accepted, tasks>>

\* --------------------------------------------------------- MongoDBManager

\* timedelta(days=1), timedelta(weeks=1), timedelta(days=30), in days (main.py 125)
PeriodDays == [daily |-> 1, weekly |-> 7, monthly |-> 30]

\* main.py 116
periods == <<"daily", "weekly", "monthly">>

\* an increment ($inc) of one field of a document: a missing field counts from 0
Inc(field, key, amount) ==
    IF key \in DOMAIN field
    THEN [field EXCEPT ![key] = @ + amount]
    ELSE field @@ (key :> amount)

\* an assignment ($set) of one field of a document
Set(field, key, value) ==
    IF key \in DOMAIN field
    THEN [field EXCEPT ![key] = value]
    ELSE field @@ (key :> value)

\* the document an upsert inserts when no document has the user_id
NewEntry(user_id) ==
    [user_id |-> user_id, username |-> "", points |-> <<>>, wins |-> <<>>,
     last_win_date |-> <<>>]

\* main.py 103-113 with upsert left out: no document, nothing updated
UpdateGlobalNoUpsert(lb, user_id, username, points_to_add) ==
    IF lb[user_id] = None
    THEN lb
    ELSE [lb EXCEPT ![user_id] =
             [@ EXCEPT !.points = Inc(@, "global", points_to_add),
                       !.wins = Inc(@, "global", 1),
                       !.username = username]]

\* main.py 103-113: the global $inc with upsert
UpdateGlobal(lb, user_id, username, points_to_add) ==
    LET doc == IF lb[user_id] = None THEN NewEntry(user_id) ELSE lb[user_id]
    IN [lb EXCEPT ![user_id] =
            [doc EXCEPT !.points = Inc(doc.points, "global", points_to_add),
                        !.wins = Inc(doc.wins, "global", 1),
                        !.username = username]]

\* main.py 124-127: the reset of a period whose last win is older than its window
ResetPeriodAlways(lb, user_id, period, t) ==
    LET doc == lb[user_id]
    IN IF doc # None /\ period \in DOMAIN doc.last_win_date
       THEN [lb EXCEPT ![user_id] =
                [doc EXCEPT !.points = Set(doc.points, period, 0),
                            !.wins = Set(doc.wins, period, 0)]]
       ELSE lb

\* main.py 124-127 with the window of a day for every period
ResetPeriodAfterADay(lb, user_id, period, t) ==
    LET doc == lb[user_id]
    IN IF /\ doc # None
          /\ period \in DOMAIN doc.last_win_date
          /\ doc.last_win_date[period] < t - PeriodDays["daily"]
       THEN [lb EXCEPT ![user_id] =
                [doc EXCEPT !.points = Set(doc.points, period, 0),
                            !.wins = Set(doc.wins, period, 0)]]
       ELSE lb

ResetPeriod(lb, user_id, period, t) ==
    LET doc == lb[user_id]
    IN IF /\ doc # None
          /\ period \in DOMAIN doc.last_win_date
          /\ doc.last_win_date[period] < t - PeriodDays[period]
       THEN [lb EXCEPT ![user_id] =
                [doc EXCEPT !.points = Set(doc.points, period, 0),
                            !.wins = Set(doc.wins, period, 0)]]
       ELSE lb

\* main.py 130-137: the period $inc with upsert
IncPeriod(lb, user_id, period, points_to_add, t) ==
    LET doc == IF lb[user_id] = None THEN NewEntry(user_id) ELSE lb[user_id]
    IN [lb EXCEPT ![user_id] =
            [doc EXCEPT !.points = Inc(doc.points, period, points_to_add),
                        !.wins = Inc(doc.wins, period, 1),
                        !.last_win_date = Set(doc.last_win_date, period, t)]]

\* main.py 117-137: the loop over the periods, from the n-th period on
RECURSIVE UpdatePeriods(_, _, _, _, _)
UpdatePeriods(lb, user_id, points_to_add, t, n) ==
    IF n > Len(periods)
    THEN lb
    ELSE UpdatePeriods(
             IncPeriod(ResetPeriod(lb, user_id, periods[n], t),
                       user_id, periods[n], points_to_add, t),
             user_id, points_to_add, t, n + 1)

\* main.py 101-137
update_leaderboard(lb, user_id, username, points_to_add, t) ==
    UpdatePeriods(UpdateGlobal(lb, user_id, username, points_to_add),
                  user_id, points_to_add, t, 1)

\* main.py 162-163
get_game_state(store, chat_id) == store[chat_id]

\* main.py 165-171: the state, with its chat_id, replaces the document of the chat
save_game_state(store, chat_id, state) ==
    [store EXCEPT ![chat_id] = state @@ [chat_id |-> chat_id]]

\* main.py 173-174
delete_game_state_all(store, chat_id) == [c \in DOMAIN store |-> None]

delete_game_state_keep(store, chat_id) == store

delete_game_state(store, chat_id) == [store EXCEPT ![chat_id] = None]

\* main.py 176-181
add_chat(chats, chat_id, chat_type, date) ==
    [chats EXCEPT ![chat_id] =
        [chat_id |-> chat_id, chat_type |-> chat_type, last_active |-> date]]

\* ------------------------------------------------------------- game logic

\* the difficulty tokens a /new command or a start_<difficulty> button carries
DifficultyTokens == {"easy", "EASY", "medium", "hard", "extreme", "bogus"}

\* str.lower on a difficulty token
lower_token(token) == IF token = "EASY" THEN "easy" ELSE token

\* main.py 236-238: an unknown difficulty becomes medium
EffectiveDifficultyEasy(difficulty) ==
    IF lower_token(difficulty) \notin DOMAIN DIFFICULTY_CONFIG
    THEN "easy"
    ELSE lower_token(difficulty)

EffectiveDifficulty(difficulty) ==
    IF lower_token(difficulty) \notin DOMAIN DIFFICULTY_CONFIG
    THEN "medium"
    ELSE lower_token(difficulty)

\* main.py 240-242: WORDS_BY_LENGTH.get(length), the empty list standing for None
word_list_any_length(difficulty) ==
    LET length == DIFFICULTY_CONFIG[EffectiveDifficulty(difficulty)].length
    IN IF length \in DOMAIN words_by_length THEN words_by_length[length]
       ELSE IF DOMAIN words_by_length = {} THEN <<>>
       ELSE words_by_length[CHOOSE n \in DOMAIN words_by_length : TRUE]

word_list(difficulty) ==
    LET length == DIFFICULTY_CONFIG[EffectiveDifficulty(difficulty)].length
    IN IF length \in DOMAIN words_by_length THEN words_by_length[length] ELSE <<>>

\* main.py 250-256
initial_state(secret_word, difficulty) ==
    [word |-> secret_word,
     difficulty |-> difficulty,
     guesses_made |-> 0,
     max_guesses |-> DIFFICULTY_CONFIG[difficulty].max_guesses,
     guess_history |-> <<>>]

\* main.py 233-265; secret_word is what random.choice(word_list) returned
start_new_game_logic(db, store, chat_id, difficulty, secret_word) ==
    IF ~db
    THEN [success |-> FALSE, message |-> "database_error", games |-> store]
    ELSE IF word_list(difficulty) = <<>>
    THEN [success |-> FALSE, message |-> "no_words", games |-> store]
    ELSE [success |-> TRUE, message |-> "new_challenge",
          games |-> save_game_state(store, chat_id,
                        initial_state(secret_word, EffectiveDifficulty(difficulty)))]

\* the grave accent that opens and closes a code span of the history line
BACKTICK == "grave accent"

\* main.py 292: the history line, as the parts of its f-string
history_entry(feedback_str, guess_clean) ==
    <<" ", BACKTICK, feedback_str, BACKTICK, " - ", "**", guess_clean, "**">>

\* main.py 695: the word of a history line: what follows its separator, without
\* the asterisks
word_of_entry(entry) == entry[7]

\* main.py 287-292 with the guess stored under the key of the secret word
count_guess_sets_word(game, feedback_str, guess_clean) ==
    [game EXCEPT !.guesses_made = @ + 1,
                 !.word = guess_clean,
                 !.guess_history = Append(@, history_entry(feedback_str, guess_clean))]

\* main.py 287-292: the game dict after the guess was counted and recorded
count_guess_twice(game, feedback_str, guess_clean) ==
    [game EXCEPT !.guesses_made = @ + 2,
                 !.guess_history = Append(@, history_entry(feedback_str, guess_clean))]

count_guess_uncounted(game, feedback_str, guess_clean) ==
    [game EXCEPT !.guess_history = Append(@, history_entry(feedback_str, guess_clean))]

count_guess_front(game, feedback_str, guess_clean) ==
    [game EXCEPT !.guesses_made = @ + 1,
                 !.guess_history = <<history_entry(feedback_str, guess_clean)>> \o @]

count_guess(game, feedback_str, guess_clean) ==
    [game EXCEPT !.guesses_made = @ + 1,
                 !.guess_history = Append(@, history_entry(feedback_str, guess_clean))]

\* main.py 283: the length test of the guess
wrong_length_never(guess_clean, length) == FALSE

wrong_length(guess_clean, length) == Len(guess_clean) # length

\* main.py 303-305: the loss test
out_of_guesses_late(game) == game.max_guesses - game.guesses_made < 0

out_of_guesses(game) == game.max_guesses - game.guesses_made <= 0

NoStatus == [kind |-> "none", word |-> <<>>, remaining |-> 0, length |-> 0]

\* main.py 267-313 with the loss test of 303-309 placed before the win test
process_guess_logic_loss_first(db, store, chat_id, guess) ==
    LET game == get_game_state(store, chat_id)
        none == [feedback |-> <<>>, is_win |-> FALSE, status |-> NoStatus,
                 points |-> 0, guess_history |-> <<>>, games |-> store]
    IN
    IF ~db
    THEN [none EXCEPT !.status.kind = "database_error"]
    ELSE IF game = None
    THEN [none EXCEPT !.status.kind = "no_active_game"]
    ELSE
    LET secret_word == game.word
        guess_clean == upper(guess)
        length == DIFFICULTY_CONFIG[game.difficulty].length
    IN
    IF wrong_length(guess_clean, length)
    THEN [none EXCEPT !.status = [NoStatus EXCEPT !.kind = "wrong_length",
                                                   !.word = upper(guess),
                                                   !.length = length],
                      !.guess_history = game.guess_history]
    ELSE
    LET feedback_str == get_feedback(secret_word, guess_clean)
        counted == count_guess(game, feedback_str, guess_clean)
    IN
    IF out_of_guesses(counted)
    THEN [feedback |-> feedback_str, is_win |-> FALSE,
          status |-> [NoStatus EXCEPT !.kind = "LOSS_WORD", !.word = counted.word],
          points |-> 0,
          guess_history |-> counted.guess_history,
          games |-> delete_game_state(store, chat_id)]
    ELSE IF guess_clean = secret_word
    THEN [feedback |-> feedback_str, is_win |-> TRUE,
          status |-> [NoStatus EXCEPT !.kind = "WIN"],
          points |-> calculate_points(counted.difficulty, counted.guesses_made),
          guess_history |-> counted.guess_history,
          games |-> delete_game_state(store, chat_id)]
    ELSE [feedback |-> feedback_str, is_win |-> FALSE,
          status |-> [NoStatus EXCEPT !.kind = "guesses_left",
                          !.remaining = counted.max_guesses - counted.guesses_made],
          points |-> 0,
          guess_history |-> counted.guess_history,
          games |-> save_game_state(store, chat_id, counted)]

\* main.py 267-313: the returned tuple, and the collection afterwards
process_guess_logic(db, store, chat_id, guess) ==
    LET game == get_game_state(store, chat_id)
        none == [feedback |-> <<>>, is_win |-> FALSE, status |-> NoStatus,
                 points |-> 0, guess_history |-> <<>>, games |-> store]
    IN
    IF ~db
    THEN [none EXCEPT !.status.kind = "database_error"]
    ELSE IF game = None
    THEN [none EXCEPT !.status.kind = "no_active_game"]
    ELSE
    LET secret_word == game.word
        guess_clean == upper(guess)
        length == DIFFICULTY_CONFIG[game.difficulty].length
    IN
    IF wrong_length(guess_clean, length)
    THEN [none EXCEPT !.status = [NoStatus EXCEPT !.kind = "wrong_length",
                                                   !.word = upper(guess),
                                                   !.length = length],
                      !.guess_history = game.guess_history]
    ELSE
    LET feedback_str == get_feedback(secret_word, guess_clean)
        counted == count_guess(game, feedback_str, guess_clean)
    IN
    IF guess_clean = secret_word
    THEN [feedback |-> feedback_str, is_win |-> TRUE,
          status |-> [NoStatus EXCEPT !.kind = "WIN"],
          points |-> calculate_points(counted.difficulty, counted.guesses_made),
          guess_history |-> counted.guess_history,
          games |-> delete_game_state(store, chat_id)]
    ELSE IF out_of_guesses(counted)
    THEN [feedback |-> feedback_str, is_win |-> FALSE,
          status |-> [NoStatus EXCEPT !.kind = "LOSS_WORD", !.word = counted.word],
          points |-> 0,
          guess_history |-> counted.guess_history,
          games |-> delete_game_state(store, chat_id)]
    ELSE [feedback |-> feedback_str, is_win |-> FALSE,
          status |-> [NoStatus EXCEPT !.kind = "guesses_left",
                          !.remaining = counted.max_guesses - counted.guesses_made],
          points |-> 0,
          guess_history |-> counted.guess_history,
          games |-> save_game_state(store, chat_id, counted)]

\* ---------------------------------------------------------------- handlers

\* main.py 317-325; member_status is what get_chat_member answered, "error" when
\* the call raised
is_group_admin_anyone(chat_type, member_status) == TRUE

is_group_admin(chat_type, member_status) ==
    IF chat_type = "PRIVATE"
    THEN TRUE
    ELSE member_status \in {"administrator", "creator"}

\* main.py 772: filters.Regex of one to eight letters
MatchesGuessFilter(text) ==
    /\ Len(text) \in 1..8
    /\ \A i \in 1..Len(text) : isalpha(text[i])

\* what a handler replied: the values its message shows, and the calls of
\* update_leaderboard it made
NoReply ==
    [op |-> "none", chat |-> 0, user |-> 0, outcome |-> "none",
     feedback |-> <<>>, points |-> 0, word |-> <<>>, remaining |-> 0,
     attempts |-> 0, max_guesses |-> 0, updates |-> <<>>]

\* main.py 680-741: the reply to a guess that process_guess_logic answered with r,
\* game_state being the document read at line 675
guess_reply(game_state, r, chat_id, user_id, username) ==
    LET said == [NoReply EXCEPT !.op = "guess", !.chat = chat_id, !.user = user_id,
                                !.max_guesses = game_state.max_guesses]
        shown == [said EXCEPT !.feedback = r.feedback,
                              !.attempts = Len(r.guess_history)]
    IN
    IF r.status.kind = "wrong_length"
    THEN [said EXCEPT !.outcome = "wrong_length", !.word = r.status.word]
    ELSE IF r.is_win
    THEN [shown EXCEPT !.outcome = "won", !.points = r.points,
                       !.word = word_of_entry(r.guess_history[Len(r.guess_history)]),
                       !.updates = <<[user_id |-> user_id, username |-> username,
                                      points_to_add |-> r.points]>>]
    ELSE IF r.status.kind = "LOSS_WORD"
    THEN [shown EXCEPT !.outcome = "lost", !.word = r.status.word]
    ELSE [shown EXCEPT !.outcome = "ongoing", !.remaining = r.status.remaining]

\* main.py 672-677: the handler returns without a reply
silent_reply(chat_id, user_id) ==
    [NoReply EXCEPT !.op = "guess", !.chat = chat_id, !.user = user_id,
                    !.outcome = "silent"]

\* main.py 698: update_leaderboard once for each update the reply lists
leaderboard_after(lb, reply, t) ==
    IF reply.updates = <<>>
    THEN lb
    ELSE update_leaderboard(lb, reply.updates[1].user_id, reply.updates[1].username,
                            reply.updates[1].points_to_add, t)

\* main.py 675-677 starting a medium game for the guess instead of returning
handle_guess_starts_game(db, store, lb, t, chat_id, user_id, username, text) ==
    LET game_state == get_game_state(store, chat_id) IN
    IF ~db
    THEN [games |-> store, leaderboard |-> lb, reply |-> silent_reply(chat_id, user_id)]
    ELSE IF game_state = None
    THEN [games |-> start_new_game_logic(db, store, chat_id, "medium",
                                         word_list("medium")[1]).games,
          leaderboard |-> lb, reply |-> silent_reply(chat_id, user_id)]
    ELSE
    LET r == process_guess_logic(db, store, chat_id, text)
        reply == guess_reply(game_state, r, chat_id, user_id, username)
    IN [games |-> r.games, leaderboard |-> leaderboard_after(lb, reply, t),
        reply |-> reply]

\* main.py 664-741: the reply, and the two collections afterwards
handle_guess(db, store, lb, t, chat_id, user_id, username, text) ==
    LET guess == text
        game_state == get_game_state(store, chat_id)
    IN
    IF ~db \/ game_state = None
    THEN [games |-> store, leaderboard |-> lb, reply |-> silent_reply(chat_id, user_id)]
    ELSE
    LET r == process_guess_logic(db, store, chat_id, guess)
        reply == guess_reply(game_state, r, chat_id, user_id, username)
    IN [games |-> r.games, leaderboard |-> leaderboard_after(lb, reply, t),
        reply |-> reply]

\* main.py 437-441 and 652-656 without the test for a running game
start_game_unchecked(db, store, chat_id, difficulty, secret_word, op) ==
    LET reply == [NoReply EXCEPT !.op = op, !.chat = chat_id]
        r == start_new_game_logic(db, store, chat_id, difficulty, secret_word)
    IN [games |-> r.games, reply |-> [reply EXCEPT !.outcome = r.message]]

\* main.py 430-442 and 649-660: the test for a running game, then the start
start_game(db, store, chat_id, difficulty, secret_word, op) ==
    LET reply == [NoReply EXCEPT !.op = op, !.chat = chat_id] IN
    IF db /\ get_game_state(store, chat_id) # None
    THEN [games |-> store, reply |-> [reply EXCEPT !.outcome = "already_active"]]
    ELSE LET r == start_new_game_logic(db, store, chat_id, difficulty, secret_word)
         IN [games |-> r.games, reply |-> [reply EXCEPT !.outcome = r.message]]

\* main.py 444-463
end_game_command(db, store, chat_id, chat_type, member_status) ==
    LET reply == [NoReply EXCEPT !.op = "end", !.chat = chat_id] IN
    IF ~db \/ get_game_state(store, chat_id) = None
    THEN [games |-> store, reply |-> [reply EXCEPT !.outcome = "no_game"]]
    ELSE IF ~is_group_admin(chat_type, member_status)
    THEN [games |-> store, reply |-> [reply EXCEPT !.outcome = "admin_check_failed"]]
    ELSE [games |-> delete_game_state(store, chat_id),
          reply |-> [reply EXCEPT !.outcome = "ended",
                                  !.word = get_game_state(store, chat_id).word]]

\* main.py 465-497
status_command(db, store, chat_id) ==
    LET reply == [NoReply EXCEPT !.op = "status", !.chat = chat_id]
        game_state == get_game_state(store, chat_id)
    IN
    IF ~db THEN [reply EXCEPT !.outcome = "database_error"]
    ELSE IF game_state = None THEN [reply EXCEPT !.outcome = "no_game"]
    ELSE [reply EXCEPT !.outcome = "status",
                       !.attempts = game_state.guesses_made,
                       !.max_guesses = game_state.max_guesses,
                       !.remaining = game_state.max_guesses - game_state.guesses_made]

\* ------------------------------------------------------------ environment

\* chat 1 is a group, chat 2 a private chat
AllChats == {1, 2}

ChatTypeOf(c) == IF c = 2 THEN "PRIVATE" ELSE "GROUP"

AllUsers == {7, 8}

\* user.username or user.first_name
UsernameOf(u) == IF u = 7 THEN "raj" ELSE "abhi"

\* the chats and users that send updates
Chats == {1}

Users == {7}

MemberStatuses == {"creator", "administrator", "member", "error"}

\* the texts sent as guesses: words of the list in either case, and other words
GuessTexts == {GAME, lower(GAME), WORD, LAKE, APPLE, PAPER, FOOTBALL}

\* the one wrong word of each length that is still sent late in a game
FillerTexts == {LAKE, PAPER, KEYBOARD}

\* guesses after the first MaxVaried of a game are the secret word or a filler
MaxVaried == 1

\* no game is started once a user has won MaxWins games
MaxWins == 2

Wins(u) == IF leaderboard[u] = None THEN 0 ELSE leaderboard[u].wins["global"]

GameRequested == \A u \in AllUsers : Wins(u) < MaxWins

GuessSent(c, text) ==
    (games[c] # None /\ games[c].guesses_made >= MaxVaried) =>
        (text \in FillerTexts \/ upper(text) = games[c].word)

\* the arguments of the /new commands sent, and the start buttons pressed
NewArgs == {<<>>, <<"easy">>, <<"EASY">>, <<"bogus">>}

StartButtons == {"medium"}

\* what random.choice(word_list) may return (main.py 248)
Choices(difficulty) ==
    IF word_list(difficulty) = <<>> THEN {<<>>} ELSE Range(word_list(difficulty))

SecretWords == UNION {Choices(d) : d \in DifficultyTokens}

\* the guess is one the session counts: a game runs and the length is the
\* configured one
IsAccepted(c, text) ==
    /\ mongo_manager
    /\ games[c] # None
    /\ Len(text) = DIFFICULTY_CONFIG[games[c].difficulty].length

\* the collections as a handler finds them, the text of the message, what
\* get_chat_member answered about its sender where the handler asked, and the
\* difficulty token of a request for a new game
Before(text) ==
    [games |-> games, leaderboard |-> leaderboard, text |-> text, member |-> "none",
     token |-> "none"]

NoBefore ==
    [games |-> [c \in AllChats |-> None], leaderboard |-> [u \in AllUsers |-> None],
     text |-> <<>>, member |-> "none", token |-> "none"]

\* ---------------------------------------------------------------- actions

\* main.py 435: context.args[0].lower() if context.args else 'medium'
NewDifficulty(args) == IF args # <<>> THEN lower_token(args[1]) ELSE "medium"

\* main.py 430-442: /new [difficulty]
NewGameCommand(c, args, secret_word) ==
    /\ GameRequested
    /\ secret_word \in Choices(NewDifficulty(args))
    /\ known_chats' = IF mongo_manager
                      THEN add_chat(known_chats, c, ChatTypeOf(c), now)
                      ELSE known_chats
    /\ \E r \in {start_game(mongo_manager, games, c, NewDifficulty(args),
                             secret_word, "new")} :
           /\ games' = r.games
           /\ last' = r.reply
           /\ accepted' = IF r.reply.outcome = "new_challenge"
                          THEN [accepted EXCEPT ![c] = 0] ELSE accepted
           /\ finished' = IF r.reply.outcome = "new_challenge"
                          THEN [finished EXCEPT ![c] = "none"] ELSE finished
    /\ pre' = [Before(<<>>) EXCEPT !.token = IF args # <<>> THEN args[1] ELSE "none"]
    /\ UNCHANGED <<words_by_length, pts, mongo_manager, leaderboard, now, tasks, fb>>

\* main.py 649-660: a start_<difficulty> button
StartCallback(c, difficulty, secret_word) ==
    /\ GameRequested
    /\ secret_word \in Choices(difficulty)
    /\ \E r \in {start_game(mongo_manager, games, c, difficulty, secret_word, "start")} :
           /\ games' = r.games
           /\ last' = r.reply
           /\ accepted' = IF r.reply.outcome = "new_challenge"
                          THEN [accepted EXCEPT ![c] = 0] ELSE accepted
           /\ finished' = IF r.reply.outcome = "new_challenge"
                          THEN [finished EXCEPT ![c] = "none"] ELSE finished
    /\ pre' = [Before(<<>>) EXCEPT !.token = difficulty]
    /\ UNCHANGED <<words_by_length, pts, mongo_manager, leaderboard, known_chats, now,
                   tasks, fb>>

\* main.py 664-741: a text message of one to eight letters
HandleGuess(c, u, text) ==
    /\ MatchesGuessFilter(text)
    /\ GuessSent(c, text)
    /\ \E r \in {handle_guess(mongo_manager, games, leaderboard, now, c, u,
                               UsernameOf(u), text)} :
           /\ games' = r.games
           /\ leaderboard' = r.leaderboard
           /\ last' = r.reply
           /\ finished' = IF r.reply.outcome \in {"won", "lost"}
                          THEN [finished EXCEPT ![c] = r.reply.outcome] ELSE finished
    /\ accepted' = IF IsAccepted(c, text)
                   THEN [accepted EXCEPT ![c] = @ + 1] ELSE accepted
    /\ pre' = Before(text)
    /\ UNCHANGED <<words_by_length, pts, mongo_manager, known_chats, now, tasks, fb>>

\* main.py 444-463: /end
EndGameCommand(c, member_status) ==
    /\ \E r \in {end_game_command(mongo_manager, games, c, ChatTypeOf(c),
                                   member_status)} :
           /\ games' = r.games
           /\ last' = r.reply
           /\ finished' = IF r.reply.outcome = "ended"
                          THEN [finished EXCEPT ![c] = "ended"] ELSE finished
    /\ pre' = [Before(<<>>) EXCEPT !.member = member_status]
    /\ UNCHANGED <<words_by_length, pts, mongo_manager, leaderboard, known_chats, now,
                   accepted, tasks, fb>>

\* main.py 465-497: /status
StatusCommand(c) ==
    /\ last' = status_command(mongo_manager, games, c)
    /\ pre' = Before(<<>>)
    /\ UNCHANGED <<finished, words_by_length, pts, mongo_manager, games, leaderboard,
                   known_chats, now, accepted, tasks, fb>>

\* ---------------------------------------------------------- specifications

NoTasks == <<>>

\* the state after the module was loaded, with and without a database
Init ==
    /\ words_by_length = WORDS_BY_LENGTH
    /\ mongo_manager \in BOOLEAN
    /\ games = [c \in AllChats |-> None]
    /\ leaderboard = [u \in AllUsers |-> None]
    /\ known_chats = [c \in AllChats |-> None]
    /\ now = 0
    /\ last = NoReply
    /\ pre = NoBefore
    /\ accepted = [c \in AllChats |-> 0]
    /\ finished = [c \in AllChats |-> "none"]
    /\ tasks = NoTasks
    /\ fb = FbIdle
    /\ pts = PtsIdle

Next ==
    \/ \E c \in Chats, args \in NewArgs, w \in SecretWords : NewGameCommand(c, args, w)
    \/ \E c \in Chats, t \in StartButtons, w \in SecretWords : StartCallback(c, t, w)
    \/ \E c \in Chats, u \in Users, text \in GuessTexts : HandleGuess(c, u, text)
    \/ \E c \in Chats, m \in {"creator", "member"} : EndGameCommand(c, m)
    \/ \E c \in Chats : StatusCommand(c)

Spec == Init /\ [][Next]_vars

\* ------------------------------------------ specification: calculate_points

\* every difficulty, and every two guess counts a game can reach
InitPoints ==
    /\ words_by_length = WORDS_BY_LENGTH
    /\ mongo_manager = TRUE
    /\ games = [c \in AllChats |-> None]
    /\ leaderboard = [u \in AllUsers |-> None]
    /\ known_chats = [c \in AllChats |-> None]
    /\ now = 0
    /\ last = NoReply
    /\ pre = NoBefore
    /\ accepted = [c \in AllChats |-> 0]
    /\ finished = [c \in AllChats |-> "none"]
    /\ tasks = NoTasks
    /\ fb = FbIdle
    /\ \E d \in DOMAIN DIFFICULTY_CONFIG :
       \E k \in 1..DIFFICULTY_CONFIG[d].max_guesses :
       \E j \in k..DIFFICULTY_CONFIG[d].max_guesses :
           pts = [PtsIdle EXCEPT !.difficulty = d, !.guesses = k, !.later = j]

NextPoints == Score

SpecPoints == InitPoints /\ [][NextPoints]_vars

\* ----------------------------------- games started and ended, other word lists

\* a word of the list written in lower case with a hyphen
HYPHENATED == <<"l", "a", "-", "k", "e">>

\* RAW_WORDS as it is, without its 8-letter words, and with a word to clean
WordLists == {RAW_WORDS, <<GAME, WORD, APPLE>>, <<HYPHENATED, APPLE, FOOTBALL>>}

InitStart ==
    /\ words_by_length \in {BuildWordsByLength(raw_words) : raw_words \in WordLists}
    /\ mongo_manager \in BOOLEAN
    /\ games = [c \in AllChats |-> None]
    /\ leaderboard = [u \in AllUsers |-> None]
    /\ known_chats = [c \in AllChats |-> None]
    /\ now = 0
    /\ last = NoReply
    /\ pre = NoBefore
    /\ accepted = [c \in AllChats |-> 0]
    /\ finished = [c \in AllChats |-> "none"]
    /\ tasks = NoTasks
    /\ fb = FbIdle
    /\ pts = PtsIdle

NextStart ==
    \/ \E c \in AllChats, token \in DifficultyTokens, w \in SecretWords :
           NewGameCommand(c, <<token>>, w)
    \/ \E c \in AllChats, d \in DOMAIN DIFFICULTY_CONFIG, w \in SecretWords :
           StartCallback(c, d, w)
    \/ \E c \in AllChats : EndGameCommand(c, "creator")

SpecStart == InitStart /\ [][NextStart]_vars

\* ------------------------------------------- two chats, both users, short games

\* a game of this specification gets at most MaxRounds guesses
MaxRounds == 1

RoundsLeft(c) == games[c] # None => games[c].guesses_made < MaxRounds

ChatTexts == {GAME, WORD, APPLE}

NextChats ==
    \/ \E c \in AllChats, w \in Choices("easy") : NewGameCommand(c, <<"easy">>, w)
    \/ \E c \in AllChats, u \in AllUsers, text \in ChatTexts :
           RoundsLeft(c) /\ HandleGuess(c, u, text)
    \/ \E c \in AllChats, m \in MemberStatuses : EndGameCommand(c, m)
    \/ \E c \in AllChats : StatusCommand(c)

SpecChats == Init /\ [][NextChats]_vars

\* ------------------------------------------------ games over several days

\* the last day the clock reaches
MaxDay == 2

\* main.py 102: datetime.now(timezone.utc) is a day later
Tick ==
    /\ now < MaxDay
    /\ now' = now + 1
    /\ last' = [NoReply EXCEPT !.op = "tick"]
    /\ pre' = Before(<<>>)
    /\ UNCHANGED <<words_by_length, mongo_manager, games, leaderboard, known_chats,
                   accepted, finished, tasks, fb, pts>>

DayArgs == {<<>>, <<"easy">>}

DayTexts == {GAME, APPLE, PAPER}

NextDays ==
    \/ \E c \in Chats, args \in DayArgs, w \in SecretWords : NewGameCommand(c, args, w)
    \/ \E c \in Chats, u \in Users, text \in DayTexts :
           RoundsLeft(c) /\ HandleGuess(c, u, text)
    \/ \E c \in Chats : EndGameCommand(c, "creator")
    \/ Tick

SpecDays == Init /\ [][NextDays]_vars

\* ------------------------------------------ wins days, weeks and months apart

\* the last day of the clock
MaxDate == 31

\* the days that pass between two games: a day, and what is left of a week
\* and of thirty days
LaterDays == {1, 6, 23}

\* main.py 102: datetime.now(timezone.utc) is some days later
Later(days) ==
    /\ \A c \in Chats : games[c] = None
    /\ now + days <= MaxDate
    /\ now' = now + days
    /\ last' = [NoReply EXCEPT !.op = "tick"]
    /\ pre' = Before(<<>>)
    /\ UNCHANGED <<words_by_length, mongo_manager, games, leaderboard, known_chats,
                   accepted, finished, tasks, fb, pts>>

\* the guesses sent: the secret word and, while the game has rounds left, a
\* word that is not the secret word
PeriodTexts == {GAME, LAKE}

NextPeriods ==
    \/ \E c \in Chats : NewGameCommand(c, <<"easy">>, GAME)
    \/ \E c \in Chats, u \in Users, text \in PeriodTexts :
           (text \in FillerTexts => RoundsLeft(c)) /\ HandleGuess(c, u, text)
    \/ \E days \in LaterDays : Later(days)

SpecPeriods == Init /\ [][NextPeriods]_vars

\* ------------------------------------------ guesses in lower and mixed case

\* the secret word GAME in upper, lower and mixed case, two words of its
\* length that are in no pool, one of them in lower case, and a longer word
CaseTexts ==
    {GAME, lower(GAME), <<"G","a","M","e">>, LAKE, lower(LAKE), <<"z","Z","z","Z">>,
     APPLE}

NextCase ==
    \/ \E c \in Chats, w \in Choices("easy") : NewGameCommand(c, <<"easy">>, w)
    \/ \E c \in Chats, u \in Users, text \in CaseTexts :
           RoundsLeft(c) /\ HandleGuess(c, u, text)
    \/ \E c \in Chats : EndGameCommand(c, "creator")

SpecCase == Init /\ [][NextCase]_vars

\* ------------------------------------------ guesses that keep arriving

\* the guesses sent: the secret word GAME, a word of its length that is in
\* no pool, and a word of another length
LiveTexts == {GAME, LAKE, APPLE}

\* main.py 664-741: a guess of the configured length is handled in chat c
AcceptedGuess(c) ==
    \E u \in Users, text \in LiveTexts : IsAccepted(c, text) /\ HandleGuess(c, u, text)

NextLive ==
    \/ \E c \in Chats, w \in Choices("easy") : NewGameCommand(c, <<"easy">>, w)
    \/ \E c \in Chats, u \in Users, text \in LiveTexts : HandleGuess(c, u, text)
    \/ \E c \in Chats : EndGameCommand(c, "creator")

\* An accepted guess can be handled exactly while a game runs in the chat:
\* LAKE has the length of every game started here and is always sent.
GameRuns(c) == mongo_manager /\ games[c] # None

\* Weak fairness of AcceptedGuess(c), that is WF_vars(AcceptedGuess(c)) with
\* its ENABLED written as the state predicate GameRuns(c): while a game runs,
\* guesses of its length keep being sent and the dispatcher hands each to
\* handle_guess (main.py 770-775).
GuessesKeepArriving(c) ==
    \/ []<>(~GameRuns(c))
    \/ []<><<AcceptedGuess(c)>>_vars

SpecLive == Init /\ [][NextLive]_vars /\ \A c \in Chats : GuessesKeepArriving(c)

\* ------------------------------------- guesses in flight for the same chat

\* the guess updates that wait in the update queue at the same time
NumTasks == 2

TaskTexts == {GAME, WORD, LAKE, APPLE}

NoResult ==
    [feedback |-> <<>>, is_win |-> FALSE, status |-> NoStatus, points |-> 0,
     guess_history |-> <<>>, games |-> [c \in AllChats |-> None]]

QueuedTask(c, u, text) ==
    [chat |-> c, user |-> u, text |-> text, pc |-> "queued", game_state |-> None,
     r |-> NoResult, accepted |-> FALSE]

\* main.py 751 and 779: the Application is built without concurrent_updates, so
\* an update is taken from the queue when the handler of the one before it has
\* returned; and handle_guess awaits nothing between its reads and its writes.
\* Task t may take its next step when no other handler is under way.
MayStepPreemptive(t) == TRUE

MayStep(t) == \A o \in DOMAIN tasks \ {t} : tasks[o].pc \in {"queued", "done"}

\* process_guess_logic wrote the document or deleted it (main.py 299, 307, 312)
Writes(r) == r.status.kind \in {"WIN", "LOSS_WORD", "guesses_left"}

\* main.py 672-677: handle_guess reads the game of the chat
TaskBegin(t) ==
    /\ tasks[t].pc = "queued"
    /\ MayStep(t)
    /\ LET game_state == get_game_state(games, tasks[t].chat) IN
       IF ~mongo_manager \/ game_state = None
       THEN /\ tasks' = [tasks EXCEPT ![t].pc = "done"]
            /\ last' = silent_reply(tasks[t].chat, tasks[t].user)
       ELSE /\ tasks' = [tasks EXCEPT ![t].pc = "got", ![t].game_state = game_state]
            /\ last' = last
    /\ UNCHANGED <<finished, words_by_length, pts, mongo_manager, games, leaderboard,
                   known_chats, now, pre, accepted, fb>>

\* main.py 271-297, 303-305: process_guess_logic reads the game again and
\* works on its own copy of it
TaskProcess(t) ==
    /\ tasks[t].pc = "got"
    /\ MayStep(t)
    /\ tasks' = [tasks EXCEPT
           ![t].pc = "computed",
           ![t].r = process_guess_logic(mongo_manager, games, tasks[t].chat, tasks[t].text),
           ![t].accepted = IsAccepted(tasks[t].chat, tasks[t].text)]
    /\ accepted' = IF IsAccepted(tasks[t].chat, tasks[t].text)
                   THEN [accepted EXCEPT ![tasks[t].chat] = @ + 1] ELSE accepted
    /\ UNCHANGED <<finished, words_by_length, pts, mongo_manager, games, leaderboard,
                   known_chats, now, last, pre, fb>>

\* main.py 299, 307, 312: the copy replaces the stored document, or the
\* document is deleted
TaskWrite(t) ==
    /\ tasks[t].pc = "computed"
    /\ MayStep(t)
    /\ tasks' = [tasks EXCEPT ![t].pc = "written"]
    /\ games' = IF Writes(tasks[t].r)
                THEN [games EXCEPT ![tasks[t].chat] = tasks[t].r.games[tasks[t].chat]]
                ELSE games
    /\ UNCHANGED <<finished, words_by_length, pts, mongo_manager, leaderboard,
                   known_chats, now, last, pre, accepted, fb>>

\* main.py 682-741: the leaderboard update of a win, and the reply
TaskFinish(t) ==
    /\ tasks[t].pc = "written"
    /\ MayStep(t)
    /\ tasks' = [tasks EXCEPT ![t].pc = "done"]
    /\ \E reply \in {guess_reply(tasks[t].game_state, tasks[t].r, tasks[t].chat,
                                 tasks[t].user, UsernameOf(tasks[t].user))} :
           /\ last' = reply
           /\ leaderboard' = leaderboard_after(leaderboard, reply, now)
    /\ UNCHANGED <<finished, words_by_length, pts, mongo_manager, games, known_chats,
                   now, pre, accepted, fb>>

\* a game was just started in chat 1, and NumTasks guesses for it arrive together
InitTasks ==
    /\ words_by_length = WORDS_BY_LENGTH
    /\ mongo_manager = TRUE
    /\ \E d \in {"easy", "medium"} : \E w \in Choices(d) :
           games = start_new_game_logic(TRUE, [c \in AllChats |-> None], 1, d, w).games
    /\ leaderboard = [u \in AllUsers |-> None]
    /\ known_chats = [c \in AllChats |-> None]
    /\ now = 0
    /\ last = NoReply
    /\ pre = NoBefore
    /\ accepted = [c \in AllChats |-> 0]
    /\ finished = [c \in AllChats |-> "none"]
    /\ tasks \in [1..NumTasks -> {QueuedTask(1, u, text) : u \in Users, text \in TaskTexts}]
    /\ fb = FbIdle
    /\ pts = PtsIdle

NextTasks ==
    \/ \E t \in DOMAIN tasks : TaskBegin(t)
    \/ \E t \in DOMAIN tasks : TaskProcess(t)
    \/ \E t \in DOMAIN tasks : TaskWrite(t)
    \/ \E t \in DOMAIN tasks : TaskFinish(t)

SpecTasks == InitTasks /\ [][NextTasks]_vars

\* get_feedback alone, on every pair of FeedbackInputs
InitFeedback ==
    /\ words_by_length = WORDS_BY_LENGTH
    /\ pts = PtsIdle
    /\ mongo_manager = TRUE
    /\ games = [c \in AllChats |-> None]
    /\ leaderboard = [u \in AllUsers |-> None]
    /\ known_chats = [c \in AllChats |-> None]
    /\ now = 0
    /\ last = NoReply
    /\ pre = NoBefore
    /\ accepted = [c \in AllChats |-> 0]
    /\ finished = [c \in AllChats |-> "none"]
    /\ tasks = NoTasks
    /\ \E p \in FeedbackInputs :
           fb = [secret |-> p[1], guess |-> p[2], done |-> FALSE, result |-> <<>>]

NextFeedback == Evaluate

SpecFeedback == InitFeedback /\ [][NextFeedback]_vars

\* --------------------------------- wins of one user reported at the same time

\* the points of the wins reported together
WinPoints == {13, 15, 20}

\* a call of update_leaderboard under way: done counts its update_one calls
\* that the server has applied, of the seven it makes
QueuedWin(c, points_to_add) ==
    [chat |-> c, user |-> 7, points_to_add |-> points_to_add, done |-> 0]

\* main.py 103-137: the next update_one of call t, applied by the server as
\* one operation: the global increment, then for each period its reset and
\* its increment
UpdateOne(t) ==
    LET w == tasks[t]
        period == periods[(w.done + 1) \div 2]
    IN
    /\ w.done < 1 + 2 * Len(periods)
    /\ leaderboard' =
           IF w.done = 0
           THEN UpdateGlobal(leaderboard, w.user, UsernameOf(w.user), w.points_to_add)
           ELSE IF w.done % 2 = 1
           THEN ResetPeriod(leaderboard, w.user, period, now)
           ELSE IncPeriod(leaderboard, w.user, period, w.points_to_add, now)
    /\ tasks' = [tasks EXCEPT ![t].done = @ + 1]
    /\ UNCHANGED <<words_by_length, mongo_manager, games, known_chats, now, last, pre,
                   accepted, finished, fb, pts>>

\* the user has no entry yet, or the entry of a win of 15 points on day 0; the
\* wins come on day 0 or two days later
InitWins ==
    /\ words_by_length = WORDS_BY_LENGTH
    /\ mongo_manager = TRUE
    /\ games = [c \in AllChats |-> None]
    /\ leaderboard \in {[u \in AllUsers |-> None],
                        update_leaderboard([u \in AllUsers |-> None], 7, UsernameOf(7), 15, 0)}
    /\ known_chats = [c \in AllChats |-> None]
    /\ now \in {0, 2}
    /\ last = NoReply
    /\ pre = [NoBefore EXCEPT !.leaderboard = leaderboard]
    /\ accepted = [c \in AllChats |-> 0]
    /\ finished = [c \in AllChats |-> "none"]
    /\ tasks \in [1..NumTasks -> {QueuedWin(c, p) : c \in AllChats, p \in WinPoints}]
    /\ fb = FbIdle
    /\ pts = PtsIdle

NextWins == \E t \in DOMAIN tasks : UpdateOne(t)

SpecWins == InitWins /\ [][NextWins]_vars

\* ------------------------------------------------- properties: get_feedback

Verdicts == {GREEN, YELLOW, RED}

Positions(w, c) == {i \in 1..Len(w) : w[i] = c}

FbSameLength == fb.done /\ Len(fb.secret) = Len(fb.guess)

\* C1: for a secret and a guess of the same length, get_feedback returns
\* exactly len(secret) verdicts, each one of green, yellow and red.
C1_FeedbackShape ==
    FbSameLength =>
        /\ Len(fb.result) = Len(fb.secret)
        /\ \A i \in 1..Len(fb.result) : fb.result[i] \in Verdicts

C1_Witness ==
    /\ FbSameLength
    /\ Len(fb.secret) = MaxLen
    /\ {fb.result[i] : i \in 1..Len(fb.result)} = Verdicts

\* the verdict of position i by the reference two-pass rule, given the verdicts
\* of the positions before i
ReferenceVerdict(secret, guess, result, i) ==
    IF guess[i] = secret[i]
    THEN GREEN
    ELSE LET c == guess[i]
             hits == Cardinality({j \in Positions(guess, c) : secret[j] = c})
             earlier == Cardinality({j \in Positions(guess, c) :
                                        j < i /\ secret[j] # c /\ result[j] = YELLOW})
         IN IF Cardinality(Positions(secret, c)) - hits - earlier > 0
            THEN YELLOW
            ELSE RED

\* C2: for a secret and a guess of the same length, get_feedback is the
\* reference Wordle result: a position is green iff the letters agree; another
\* position is yellow iff the occurrences of its letter in the secret, less the
\* greens of that letter, less the earlier yellows of that letter, are more
\* than none; else it is red.
C2_FeedbackIsReference ==
    FbSameLength =>
        /\ DOMAIN fb.result = 1..Len(fb.secret)
        /\ \A i \in 1..Len(fb.secret) :
               fb.result[i] = ReferenceVerdict(fb.secret, fb.guess, fb.result, i)

\* a guess that repeats a letter: its first occurrence is red although the
\* secret has the letter, because the green of the second one used it up
C2_Witness ==
    /\ FbSameLength
    /\ \E i, j \in 1..Len(fb.guess) :
           /\ i < j
           /\ fb.guess[i] = fb.guess[j]
           /\ fb.result[i] = RED
           /\ fb.result[j] = GREEN

\* C3: the greens are settled before any yellow: for every letter, the greens
\* and yellows of the guess on that letter number min(count in secret, count in
\* guess); a position whose letters agree is green whatever came before it; the
\* yellows of a letter are its leftmost positions that are not green; and
\* APPLE guessed with PAPER gives yellow, yellow, green, yellow, red.
C3_GreensFirst ==
    FbSameLength =>
        /\ DOMAIN fb.result = 1..Len(fb.secret)
        /\ \A c \in Range(fb.guess) :
               Cardinality({i \in Positions(fb.guess, c) : fb.result[i] \in {GREEN, YELLOW}})
                   = Min(Cardinality(Positions(fb.secret, c)),
                         Cardinality(Positions(fb.guess, c)))
        /\ \A i \in 1..Len(fb.secret) :
               fb.guess[i] = fb.secret[i] => fb.result[i] = GREEN
        /\ \A i, j \in 1..Len(fb.secret) :
               (/\ i < j
                /\ fb.guess[i] = fb.guess[j]
                /\ fb.result[i] # GREEN
                /\ fb.result[j] = YELLOW) => fb.result[i] = YELLOW
        /\ (fb.secret = APPLE /\ fb.guess = PAPER) =>
               fb.result = <<YELLOW, YELLOW, GREEN, YELLOW, RED>>

\* APPLE guessed with PAPER was evaluated; and so was a guess whose later
\* occurrence of a letter is green although an earlier one is not
C3_Witness ==
    /\ fb.done
    /\ fb.secret = APPLE
    /\ fb.guess = PAPER
    /\ fb.result[3] = GREEN
    /\ fb.result[1] = YELLOW

\* C4: a word guessed with itself is all green.
C4_ExactMatchAllGreen ==
    (fb.done /\ fb.guess = fb.secret) =>
        fb.result = [i \in 1..Len(fb.secret) |-> GREEN]

C4_Witness ==
    /\ fb.done
    /\ fb.guess = fb.secret
    /\ fb.secret = FOOTBALL
    /\ fb.result = [i \in 1..8 |-> GREEN]

\* ----------------------------------------------------- properties: sessions

\* the handler that ran last was handle_guess, for a chat with a running game
GuessHandled ==
    /\ last.op = "guess"
    /\ mongo_manager
    /\ pre.games[last.chat] # None

GameBefore == pre.games[last.chat]

LengthBefore == DIFFICULTY_CONFIG[GameBefore.difficulty].length

\* the guess was one the session counts: it had the configured length
GuessAccepted == GuessHandled /\ Len(pre.text) = LengthBefore

\* C5: every stored session has guesses_made = len(guess_history), whatever
\* new games, accepted guesses, rejected guesses and ends came before.
C5_CountIsHistoryLength ==
    \A c \in AllChats :
        games[c] # None => games[c].guesses_made = Len(games[c].guess_history)

\* a second game, after a won one, with two guesses counted and a third rejected
C5_Witness ==
    /\ games[1] # None
    /\ games[1].guesses_made = 2
    /\ Len(games[1].guess_history) = 2
    /\ last.outcome = "wrong_length"
    /\ leaderboard[7] # None

\* C6: a guess of another length than the session's word length is rejected
\* with the wrong-length error; the stored session is the same before and
\* after, no attempt is consumed, the session stays, and the leaderboard is
\* not touched.
C6_WrongLengthRejected ==
    (GuessHandled /\ Len(pre.text) # LengthBefore) =>
        /\ last.outcome = "wrong_length"
        /\ games = pre.games
        /\ games[last.chat] # None
        /\ games[last.chat].guesses_made = GameBefore.guesses_made
        /\ games[last.chat].guess_history = GameBefore.guess_history
        /\ games[last.chat].word = GameBefore.word
        /\ games[last.chat].difficulty = GameBefore.difficulty
        /\ leaderboard = pre.leaderboard
        /\ last.updates = <<>>
        /\ last.points = 0

\* a five-letter text was sent to a four-letter game that has one guess counted
C6_Witness ==
    /\ GuessHandled
    /\ Len(pre.text) = 5
    /\ LengthBefore = 4
    /\ last.outcome = "wrong_length"
    /\ games[1] # None
    /\ games[1].guesses_made = 1
    /\ accepted[1] = 1

\* bonus(k) of the points formula
Bonus(k) == Max(0, 10 - 2 * (k - 1))

PointsOf(lb, u, period) ==
    IF lb[u] = None \/ period \notin DOMAIN lb[u].points THEN 0 ELSE lb[u].points[period]

WinsOf(lb, u, period) ==
    IF lb[u] = None \/ period \notin DOMAIN lb[u].wins THEN 0 ELSE lb[u].wins[period]

\* C7: when the k-th accepted guess of a session is the secret word, the
\* session is won and deleted, the points are base_points(difficulty) +
\* bonus(k), and the leaderboard is updated once, for the guessing user, with
\* those points and one win.
C7_WinAwardsPointsOnce ==
    (GuessAccepted /\ upper(pre.text) = GameBefore.word) =>
        /\ last.outcome = "won"
        /\ games[last.chat] = None
        /\ last.points = DIFFICULTY_CONFIG[GameBefore.difficulty].base_points
                             + Bonus(accepted[last.chat])
        /\ last.updates = <<[user_id |-> last.user, username |-> UsernameOf(last.user),
                             points_to_add |-> last.points]>>
        /\ PointsOf(leaderboard, last.user, "global")
               = PointsOf(pre.leaderboard, last.user, "global") + last.points
        /\ WinsOf(leaderboard, last.user, "global")
               = WinsOf(pre.leaderboard, last.user, "global") + 1
        /\ \A v \in AllUsers \ {last.user} : leaderboard[v] = pre.leaderboard[v]

\* a second win of the user, on the third accepted guess of the game
C7_Witness ==
    /\ GuessAccepted
    /\ last.outcome = "won"
    /\ games[1] = None
    /\ accepted[1] = 3
    /\ last.points = 11
    /\ WinsOf(pre.leaderboard, 7, "global") = 1
    /\ WinsOf(leaderboard, 7, "global") = 2

\* C8: when an accepted guess is not the secret and brings guesses_made to
\* max_guesses, the session is lost: its record is deleted, so that
\* get_game_state returns None, the secret word is revealed, no points are
\* awarded and the leaderboard is not updated.
C8_LastWrongGuessLoses ==
    (/\ GuessAccepted
     /\ upper(pre.text) # GameBefore.word
     /\ GameBefore.guesses_made + 1 = GameBefore.max_guesses) =>
        /\ last.outcome = "lost"
        /\ get_game_state(games, last.chat) = None
        /\ last.word = GameBefore.word
        /\ last.points = 0
        /\ last.updates = <<>>
        /\ leaderboard = pre.leaderboard

\* the thirtieth wrong guess of a game
C8_Witness ==
    /\ GuessAccepted
    /\ last.outcome = "lost"
    /\ games[1] = None
    /\ accepted[1] = 30
    /\ last.attempts = 30
    /\ GameBefore.guesses_made = 29
    /\ last.word = GAME

\* the verdicts are the reference result for the secret and the guess
IsReferenceFeedback(secret, guess, result) ==
    /\ DOMAIN result = 1..Len(secret)
    /\ \A i \in 1..Len(secret) : result[i] = ReferenceVerdict(secret, guess, result, i)

\* C9: when an accepted guess is not the secret and guesses_made stays below
\* max_guesses, the session stays: guesses_made is one more, guess_history is
\* the old one with one entry, the feedback and the guessed word, at its end,
\* and the guesses left reported are max_guesses - guesses_made.
C9_WrongGuessIsRecorded ==
    (/\ GuessAccepted
     /\ upper(pre.text) # GameBefore.word
     /\ GameBefore.guesses_made + 1 < GameBefore.max_guesses) =>
        /\ last.outcome = "ongoing"
        /\ games[last.chat] # None
        /\ LET game == games[last.chat]
               entry == game.guess_history[Len(game.guess_history)]
           IN /\ game.guesses_made = GameBefore.guesses_made + 1
              /\ Len(game.guess_history) = Len(GameBefore.guess_history) + 1
              /\ SubSeq(game.guess_history, 1, Len(GameBefore.guess_history))
                     = GameBefore.guess_history
              /\ word_of_entry(entry) = upper(pre.text)
              /\ IsReferenceFeedback(GameBefore.word, upper(pre.text), entry[3])
              /\ last.feedback = entry[3]
              /\ last.remaining = game.max_guesses - game.guesses_made
              /\ game.word = GameBefore.word
              /\ game.difficulty = GameBefore.difficulty
              /\ game.max_guesses = GameBefore.max_guesses

\* three wrong guesses were recorded, the first another word than the later ones
C9_Witness ==
    /\ GuessAccepted
    /\ last.outcome = "ongoing"
    /\ games[1] # None
    /\ games[1].guesses_made = 3
    /\ last.remaining = 27
    /\ word_of_entry(games[1].guess_history[1]) # word_of_entry(games[1].guess_history[3])

\* ------------------------------------------- properties: guesses in flight

Quiescent == \A t \in DOMAIN tasks : tasks[t].pc \in {"queued", "done"}

AcceptedTasks == {t \in DOMAIN tasks : tasks[t].accepted}

\* the history is the accepted guesses, each once, in some order
HistoryOfAccepted(history) ==
    \E f \in [1..Len(history) -> AcceptedTasks] :
        /\ \A i, j \in 1..Len(history) : i # j => f[i] # f[j]
        /\ \A i \in 1..Len(history) :
               word_of_entry(history[i]) = upper(tasks[f[i]].text)

NewGameRequested == last.op \in {"new", "start"}

\* C11: a /new command or a start button in a chat that has a session is
\* rejected, and the session of the chat (word, difficulty, guesses_made,
\* guess_history) is left as it was.
C11_NewGameWhileActiveRejected ==
    (NewGameRequested /\ pre.games[last.chat] # None) =>
        /\ last.outcome = "already_active"
        /\ games = pre.games

\* a start button pressed in a game that has a guess in its history
C11_Witness ==
    /\ last.op = "start"
    /\ pre.games[1] # None
    /\ pre.games[1].guesses_made = 1
    /\ last.outcome = "already_active"

\* C12: a guess, a /status or an /end in a chat that has no session changes
\* nothing: no session is stored, the leaderboard is as before, and the
\* handler returns, silently for a guess and with a notice for a command.
C12_NoSessionIsNoOp ==
    (last.op \in {"guess", "status", "end"} /\ pre.games[last.chat] = None) =>
        /\ games = pre.games
        /\ leaderboard = pre.leaderboard
        /\ last.op = "guess" => last.outcome = "silent"
        /\ last.op = "end" => last.outcome = "no_game"
        /\ last.op = "status" =>
               last.outcome = (IF mongo_manager THEN "no_game" ELSE "database_error")
        /\ last.updates = <<>>

\* a guess sent after the game of the chat was won
C12_Witness ==
    /\ last.op = "guess"
    /\ last.outcome = "silent"
    /\ mongo_manager
    /\ pre.games[1] = None
    /\ leaderboard[7] # None

\* the sender of the /end may end the game: any user of a private chat, an
\* administrator or the creator of a group
RequesterIsAdmin ==
    \/ ChatTypeOf(last.chat) = "PRIVATE"
    \/ pre.member \in {"administrator", "creator"}

\* C13: an /end for a running game, sent by an admin of the group or by any
\* user of a private chat, deletes the session, shows the secret word and
\* leaves the leaderboard alone; sent by anyone else in a group it leaves the
\* session as it was.
C13_EndIsAdminOnly ==
    (last.op = "end" /\ pre.games[last.chat] # None) =>
        IF RequesterIsAdmin
        THEN /\ last.outcome = "ended"
             /\ games = [pre.games EXCEPT ![last.chat] = None]
             /\ last.word = pre.games[last.chat].word
             /\ last.updates = <<>>
             /\ leaderboard = pre.leaderboard
        ELSE /\ last.outcome = "admin_check_failed"
             /\ games = pre.games
             /\ leaderboard = pre.leaderboard

\* a plain member ends the game of the private chat, after a guess, while the
\* group has a game of its own
C13_Witness ==
    /\ last.op = "end"
    /\ last.chat = 2
    /\ pre.member = "member"
    /\ pre.games[2] # None
    /\ pre.games[2].guesses_made = 1
    /\ games[2] = None
    /\ games[1] # None
    /\ last.outcome = "ended"

\* a plain member of the group asks for the end of its game, and it goes on
C13_WitnessRefused ==
    /\ last.op = "end"
    /\ last.chat = 1
    /\ pre.member = "member"
    /\ games[1] # None
    /\ last.outcome = "admin_check_failed"

\* the request for a new game carried a difficulty token, and the token in
\* lower case is none of the four difficulties
TokenUnrecognized ==
    /\ NewGameRequested
    /\ pre.token # "none"
    /\ lower_token(pre.token) \notin {"easy", "medium", "hard", "extreme"}

\* C14 as stated: a new game asked for with an unrecognized difficulty token
\* fails and creates no session.
C14_InvalidDifficultyRejected ==
    TokenUnrecognized =>
        /\ last.outcome # "new_challenge"
        /\ games = pre.games

\* C14, amended: an unrecognized difficulty token is not rejected but read as
\* medium; with the database there and no game running in the chat, the
\* request creates a medium session: a five-letter word of the pool, no guess
\* made, an empty history.
C14_InvalidDifficultyIsMedium ==
    (TokenUnrecognized /\ mongo_manager /\ pre.games[last.chat] = None) =>
        /\ last.outcome = "new_challenge"
        /\ games[last.chat] # None
        /\ games[last.chat].difficulty = "medium"
        /\ games[last.chat].word \in Range(words_by_length[5])
        /\ games[last.chat].max_guesses = DIFFICULTY_CONFIG["medium"].max_guesses
        /\ games[last.chat].guesses_made = 0
        /\ games[last.chat].guess_history = <<>>
        /\ \A c \in AllChats \ {last.chat} : games[c] = pre.games[c]

\* /new bogus in a chat without a game
C14_Witness ==
    /\ last.op = "new"
    /\ pre.token = "bogus"
    /\ pre.games[1] = None
    /\ games[1] # None
    /\ games[1].difficulty = "medium"

\* C15: the word of every stored session is a word of the pool of the length
\* its difficulty configures, letters only and in upper case, so that
\* len(word) is that length; and a session just created has no guess made
\* and an empty history.
C15_SecretWordFitsDifficulty ==
    /\ \A c \in AllChats :
           games[c] # None =>
               LET length == DIFFICULTY_CONFIG[games[c].difficulty].length IN
               /\ Len(games[c].word) = length
               /\ length \in DOMAIN words_by_length
               /\ games[c].word \in Range(words_by_length[length])
               /\ \A i \in 1..length : games[c].word[i] \in Range(UPPERCASE)
               /\ games[c].max_guesses = DIFFICULTY_CONFIG[games[c].difficulty].max_guesses
    /\ (NewGameRequested /\ last.outcome = "new_challenge") =>
           /\ games[last.chat] # None
           /\ games[last.chat].guesses_made = 0
           /\ games[last.chat].guess_history = <<>>

\* an easy game whose word was cleaned of its hyphen and lower case
C15_Witness ==
    /\ last.outcome = "new_challenge"
    /\ games[last.chat] # None
    /\ games[last.chat].difficulty = "easy"
    /\ games[last.chat].word = LAKE
    /\ HYPHENATED \notin Range(words_by_length[4])

\* the difficulty a request for a new game stands for
RequestedDifficulty ==
    IF pre.token \in {"easy", "EASY"} THEN "easy"
    ELSE IF pre.token \in {"hard", "extreme"} THEN pre.token
    ELSE "medium"

PoolIsEmpty ==
    DIFFICULTY_CONFIG[RequestedDifficulty].length \notin DOMAIN words_by_length

\* C16: when the pool of the length of the requested difficulty is empty, a
\* new game fails with the no-words error and the store is as before: no
\* session is written, with no word of another length either.
C16_EmptyPoolFails ==
    (NewGameRequested /\ mongo_manager /\ pre.games[last.chat] = None /\ PoolIsEmpty) =>
        /\ last.outcome = "no_words"
        /\ games = pre.games

\* /new hard with a word list that has words of other lengths only
C16_Witness ==
    /\ last.op = "new"
    /\ pre.token = "hard"
    /\ mongo_manager
    /\ last.outcome = "no_words"
    /\ 4 \in DOMAIN words_by_length
    /\ 8 \notin DOMAIN words_by_length
    /\ games[last.chat] = None

\* ------------------------------------------- properties: calculate_points

\* C17: calculate_points(difficulty, k) is base_points(difficulty) +
\* max(0, 10 - 2*(k-1)) for every k from 1 to max_guesses: the bonus is never
\* negative, is 0 from the sixth guess on, does not grow with k, and the
\* points are never below the base points.
C17_PointsFormula ==
    pts.done =>
        LET base == DIFFICULTY_CONFIG[pts.difficulty].base_points
            slope == 10 - 2 * (pts.guesses - 1)
            bonus == pts.points - base
            later_bonus == pts.later_points - base
        IN /\ pts.points = base + (IF slope > 0 THEN slope ELSE 0)
           /\ bonus >= 0
           /\ pts.guesses >= 6 => bonus = 0
           /\ pts.points >= base
           /\ later_bonus <= bonus

\* hard, second guess against sixth: 28 points against 20
C17_Witness ==
    /\ pts.done
    /\ pts.difficulty = "hard"
    /\ pts.guesses = 2
    /\ pts.later = 6
    /\ pts.points = 28
    /\ pts.later_points = 20

\* ------------------------------------------ properties: a session over time

\* C18: while a session is stored, its word, difficulty and max_guesses stay
\* what they were: no handler, and so no guess, accepted or rejected, changes
\* them in a session that is still there afterwards.
C18_SessionFieldsFixed ==
    \A c \in AllChats :
        (pre.games[c] # None /\ games[c] # None) =>
            /\ games[c].word = pre.games[c].word
            /\ games[c].difficulty = pre.games[c].difficulty
            /\ games[c].max_guesses = pre.games[c].max_guesses

\* the second accepted guess of a game, a wrong one
C18_Witness ==
    /\ GuessAccepted
    /\ last.outcome = "ongoing"
    /\ pre.games[1] # None
    /\ pre.games[1].guesses_made = 1
    /\ games[1] # None
    /\ games[1].guesses_made = 2
    /\ games[1].word = pre.games[1].word

\* a guess of the wrong length, rejected, with the session still there
C18_WitnessRejected ==
    /\ GuessHandled
    /\ last.outcome = "wrong_length"
    /\ games[1] # None
    /\ games[1] = pre.games[1]

\* C19: once the session of a chat was won or lost, its record is gone, and
\* until a new game is started there a guess for the chat is not accepted: it
\* changes neither the store nor the leaderboard and awards nothing.
C19_NoGuessAfterTerminal ==
    \A c \in AllChats :
        finished[c] \in {"won", "lost"} =>
            /\ games[c] = None
            /\ (last.op = "guess" /\ last.chat = c /\ pre.games[c] = None) =>
                   /\ last.outcome = "silent"
                   /\ last.points = 0
                   /\ last.updates = <<>>
                   /\ games = pre.games
                   /\ leaderboard = pre.leaderboard

\* the word that won the game is sent once more
C19_Witness ==
    /\ finished[1] = "won"
    /\ last.op = "guess"
    /\ pre.games[1] = None
    /\ pre.text = GAME
    /\ leaderboard[7] # None
    /\ leaderboard[7].wins["global"] = 1
    /\ leaderboard[7].points["global"] = DIFFICULTY_CONFIG["easy"].base_points + 10

\* a guess sent after the game was lost on its last guess
C19_WitnessLost ==
    /\ finished[1] = "lost"
    /\ last.op = "guess"
    /\ pre.games[1] = None
    /\ games[1] = None

\* ---------------------------------------------- properties: the leaderboard

AllPeriods == {"global", "daily", "weekly", "monthly"}

\* the handler that ran last was a guess of user u that won
WonBy(u) == last.op = "guess" /\ last.outcome = "won" /\ last.user = u

\* C20 as stated: the entry of a user changes only on a win of the user, and
\* none of its stored points and wins values is ever lower than before.
C20_NeverDecremented ==
    \A u \in AllUsers :
        /\ leaderboard[u] # pre.leaderboard[u] => WonBy(u)
        /\ \A p \in AllPeriods :
               /\ PointsOf(leaderboard, u, p) >= PointsOf(pre.leaderboard, u, p)
               /\ WinsOf(leaderboard, u, p) >= WinsOf(pre.leaderboard, u, p)

\* the last win of the period is older than the window of the period
WindowPassed(u, p) ==
    /\ pre.leaderboard[u] # None
    /\ p \in DOMAIN pre.leaderboard[u].last_win_date
    /\ now - pre.leaderboard[u].last_win_date[p] > PeriodDays[p]

\* C20, amended: the entry of a user changes only on a win of the user; its
\* global points and wins are never lower than before; its daily, weekly and
\* monthly points and wins are never lower than before either, except on a
\* win that comes later than the window of the period after the win before
\* it: that win restarts the period at its own points and one win.
C20_GlobalNeverDecremented ==
    \A u \in AllUsers :
        /\ leaderboard[u] # pre.leaderboard[u] => WonBy(u)
        /\ PointsOf(leaderboard, u, "global") >= PointsOf(pre.leaderboard, u, "global")
        /\ WinsOf(leaderboard, u, "global") >= WinsOf(pre.leaderboard, u, "global")
        /\ \A p \in AllPeriods \ {"global"} :
               \/ /\ PointsOf(leaderboard, u, p) >= PointsOf(pre.leaderboard, u, p)
                  /\ WinsOf(leaderboard, u, p) >= WinsOf(pre.leaderboard, u, p)
               \/ /\ WonBy(u)
                  /\ WindowPassed(u, p)
                  /\ PointsOf(leaderboard, u, p) = last.points
                  /\ WinsOf(leaderboard, u, p) = 1

\* a win of 15 points two days after a win of 20: the daily points go down,
\* the global and the weekly points go up
C20_Witness ==
    /\ WonBy(7)
    /\ PointsOf(pre.leaderboard, 7, "daily") = 20
    /\ PointsOf(leaderboard, 7, "daily") = 15
    /\ PointsOf(leaderboard, 7, "weekly") = 35
    /\ PointsOf(leaderboard, 7, "global") = 35
    /\ WinsOf(leaderboard, 7, "global") = 2

\* --------------------------------- properties: wins reported at the same time

\* the calls of update_leaderboard whose global increment was applied
GlobalApplied == {t \in DOMAIN tasks : tasks[t].done >= 1}

RECURSIVE SumPoints(_)
SumPoints(ts) ==
    IF ts = {} THEN 0
    ELSE LET t == CHOOSE x \in ts : TRUE
         IN tasks[t].points_to_add + SumPoints(ts \ {t})

\* C21: however the update_one calls of N wins of one user, reported together,
\* are interleaved, the global points of the user are the points before plus
\* the points of the wins whose global increment was applied, and the global
\* wins are the wins before plus their number: with all N applied, plus
\* p1 + ... + pN and plus N. A user without an entry gets one.
C21_GlobalIncrementsAddUp ==
    /\ PointsOf(leaderboard, 7, "global")
           = PointsOf(pre.leaderboard, 7, "global") + SumPoints(GlobalApplied)
    /\ WinsOf(leaderboard, 7, "global")
           = WinsOf(pre.leaderboard, 7, "global") + Cardinality(GlobalApplied)
    /\ GlobalApplied # {} => leaderboard[7] # None

\* two wins from two chats for a user without an entry: the second call is
\* through while the first has applied its global increment only
C21_Witness ==
    /\ pre.leaderboard[7] = None
    /\ tasks[1].done = 1
    /\ tasks[2].done = 1 + 2 * Len(periods)
    /\ tasks[1].chat # tasks[2].chat
    /\ tasks[1].points_to_add = 13
    /\ tasks[2].points_to_add = 20
    /\ PointsOf(leaderboard, 7, "global") = 33
    /\ WinsOf(leaderboard, 7, "global") = 2

\* ---------------------------------------------------- properties: two chats

\* C22: a handler that ran for one chat (a new game, a guess, an end, a
\* status) leaves the session of every other chat as it was, and the document
\* stored for a chat id is the one document of that chat.
C22_ChatsAreIndependent ==
    /\ last.op \in {"new", "start", "guess", "end", "status"} =>
           \A c \in AllChats \ {last.chat} : games[c] = pre.games[c]
    /\ \A c \in AllChats : games[c] # None => games[c].chat_id = c

\* a guess wins the game of the private chat while the group has a game of
\* its own, with another word and a guess made
C22_Witness ==
    /\ last.op = "guess"
    /\ last.chat = 2
    /\ last.outcome = "won"
    /\ pre.games[2] # None
    /\ games[2] = None
    /\ games[1] # None
    /\ games[1].guesses_made = 1
    /\ games[1].word # pre.games[2].word

\* ------------------------------------------- properties: the end of a game

\* the guess handled last was accepted as the last guess the game allows
LastGuessOfGame ==
    GuessAccepted /\ GameBefore.guesses_made + 1 = GameBefore.max_guesses

\* C23: when the accepted guess that brings guesses_made to max_guesses is the
\* secret word, the game is won, not lost: points are awarded and the
\* leaderboard is updated with them and one win.
C23_WinBeforeLoss ==
    (LastGuessOfGame /\ upper(pre.text) = GameBefore.word) =>
        /\ last.outcome = "won"
        /\ last.points = calculate_points(GameBefore.difficulty, GameBefore.max_guesses)
        /\ last.points >= DIFFICULTY_CONFIG[GameBefore.difficulty].base_points
        /\ last.updates # <<>>
        /\ PointsOf(leaderboard, last.user, "global")
               = PointsOf(pre.leaderboard, last.user, "global") + last.points
        /\ WinsOf(leaderboard, last.user, "global")
               = WinsOf(pre.leaderboard, last.user, "global") + 1
        /\ games[last.chat] = None

\* the secret word sent as the thirtieth guess of a game
C23_Witness ==
    /\ LastGuessOfGame
    /\ GameBefore.guesses_made = 29
    /\ upper(pre.text) = GameBefore.word
    /\ last.outcome = "won"
    /\ finished[1] = "won"

\* C24: every session in the store is one that goes on: its guesses_made is
\* at least 0 and below its max_guesses, and no line of its guess_history is a
\* guess of its secret word.
C24_StoredSessionsGoOn ==
    \A c \in AllChats :
        games[c] # None =>
            /\ games[c].guesses_made >= 0
            /\ games[c].guesses_made < games[c].max_guesses
            /\ \A i \in 1..Len(games[c].guess_history) :
                   word_of_entry(games[c].guess_history[i]) # games[c].word

\* a session one guess before its last
C24_Witness ==
    /\ games[1] # None
    /\ games[1].guesses_made = games[1].max_guesses - 1
    /\ Len(games[1].guess_history) = 29

\* guesses_made of a session grows by one with a guess that was accepted and
\* stays what it was with anything else, and no session accepts more than
\* max_guesses guesses
CountsAcceptedGuesses ==
    \A c \in AllChats :
        /\ (pre.games[c] # None /\ games[c] # None) =>
               games[c].guesses_made =
                   pre.games[c].guesses_made
                       + (IF GuessAccepted /\ last.chat = c THEN 1 ELSE 0)
        /\ games[c] # None =>
               /\ games[c].guesses_made = accepted[c]
               /\ accepted[c] < games[c].max_guesses
        /\ accepted[c] <= DIFFICULTY_CONFIG["easy"].max_guesses

\* C25: guesses_made grows by exactly one with each accepted guess and never
\* otherwise, a session accepts at most max_guesses guesses, and so, when
\* guesses of the right length keep arriving for a running session, the
\* session ends: it is won or lost and removed, unless an admin ended it
\* before.
C25_SessionEnds ==
    /\ []CountsAcceptedGuesses
    /\ \A c \in Chats :
           (games[c] # None) ~> (games[c] = None /\ finished[c] \in {"won", "lost", "ended"})

\* a game lost on its thirtieth accepted guess
C25_Witness ==
    /\ GuessAccepted
    /\ last.outcome = "lost"
    /\ accepted[1] = 30
    /\ games[1] = None
    /\ finished[1] = "lost"

\* ------------------------------------ properties: the leaderboards of a period

\* the last win of user u in the period, before the handler ran
LastWinBefore(u, p) == pre.leaderboard[u].last_win_date[p]

HadWinBefore(u, p) ==
    /\ pre.leaderboard[u] # None
    /\ p \in DOMAIN pre.leaderboard[u].last_win_date

\* C26: when a win of a user is recorded, each of the daily, weekly and
\* monthly leaderboards (windows of 1, 7 and 30 days) is treated by the age of
\* the last win of the user in that period: if it is older than the window,
\* the points and wins of the period are afterwards exactly the points of this
\* win and 1; if it is within the window, they are the values before plus the
\* points of this win and plus 1. Either way the last win date of the period
\* is now.
C26_PeriodResetsOnStaleWin ==
    \A u \in AllUsers :
        WonBy(u) =>
            \A p \in AllPeriods \ {"global"} :
                /\ leaderboard[u].last_win_date[p] = now
                /\ HadWinBefore(u, p) =>
                       IF now - LastWinBefore(u, p) > PeriodDays[p]
                       THEN /\ PointsOf(leaderboard, u, p) = last.points
                            /\ WinsOf(leaderboard, u, p) = 1
                       ELSE /\ PointsOf(leaderboard, u, p) =
                                   PointsOf(pre.leaderboard, u, p) + last.points
                            /\ WinsOf(leaderboard, u, p) =
                                   WinsOf(pre.leaderboard, u, p) + 1

\* a win eight days after the win before it: the daily and the weekly
\* leaderboard start again, the monthly one goes on
C26_Witness ==
    /\ WonBy(7)
    /\ HadWinBefore(7, "monthly")
    /\ now - LastWinBefore(7, "weekly") = 8
    /\ WinsOf(leaderboard, 7, "daily") = 1
    /\ WinsOf(leaderboard, 7, "weekly") = 1
    /\ PointsOf(leaderboard, 7, "weekly") = last.points
    /\ WinsOf(leaderboard, 7, "monthly") = 2
    /\ PointsOf(leaderboard, 7, "monthly") = PointsOf(pre.leaderboard, 7, "monthly") + last.points

\* a win thirty-one days after the win before it: the monthly leaderboard
\* starts again as well
C26_WitnessMonth ==
    /\ WonBy(7)
    /\ HadWinBefore(7, "monthly")
    /\ now - LastWinBefore(7, "monthly") = 31
    /\ WinsOf(leaderboard, 7, "monthly") = 1
    /\ WinsOf(leaderboard, 7, "global") = 2

\* a win exactly seven days after the win before it: the weekly leaderboard
\* goes on
C26_WitnessWeek ==
    /\ WonBy(7)
    /\ HadWinBefore(7, "weekly")
    /\ now - LastWinBefore(7, "weekly") = 7
    /\ WinsOf(leaderboard, 7, "weekly") = 2
    /\ WinsOf(leaderboard, 7, "daily") = 1

\* ------------------------------------------- properties: the case of a guess

\* the pool of the words a game of the session's difficulty may have as secret
PoolBefore == Range(words_by_length[LengthBefore])

\* the guess and the secret word are the same word but for the case of letters
SameWordBefore == lower(pre.text) = lower(GameBefore.word)

\* C27: a guess of letters only that has the word length of the session is
\* accepted and takes one attempt, be it a word of the pool or not, and it is
\* compared without regard to case: such a guess that is the secret word in
\* lower, upper or mixed case wins.
C27_AnyWordAnyCase ==
    (/\ GuessHandled
     /\ \A i \in 1..Len(pre.text) : isalpha(pre.text[i])
     /\ Len(pre.text) = LengthBefore) =>
        /\ last.outcome \in {"won", "lost", "ongoing"}
        /\ last.attempts = GameBefore.guesses_made + 1
        /\ last.outcome = "ongoing" =>
               /\ games[last.chat] # None
               /\ games[last.chat].guesses_made = GameBefore.guesses_made + 1
        /\ SameWordBefore => last.outcome = "won"

\* the secret word GAME guessed as GaMe wins the game
C27_Witness ==
    /\ GuessHandled
    /\ pre.text = <<"G","a","M","e">>
    /\ GameBefore.word = GAME
    /\ last.outcome = "won"
    /\ last.attempts = 1
    /\ games[1] = None

\* a guess in lower case that is in no pool takes the first attempt
C27_WitnessNoWord ==
    /\ GuessHandled
    /\ pre.text = lower(LAKE)
    /\ upper(pre.text) \notin PoolBefore
    /\ last.outcome = "ongoing"
    /\ games[1] # None
    /\ games[1].guesses_made = 1

\* ----------------------------- properties: get_feedback on unequal lengths

\* no letter of remaining_letters has a count below zero
CountsNotNegative(st) ==
    \A letter \in DOMAIN st.remaining_letters : st.remaining_letters[letter] >= 0

\* C28: get_feedback copes with a guess of another length than the secret and
\* never takes a remaining count below zero: the result has len(secret)
\* verdicts; for a shorter guess every position past the end of the guess is
\* red; for a longer guess the letters past the length of the secret are
\* ignored, the result being the reference result for the guess cut to that
\* length; and after every iteration of the first and of the second loop every
\* count of remaining_letters is at least 0.
C28_FeedbackCopesWithLengths ==
    fb.done =>
        /\ DOMAIN fb.result = 1..Len(fb.secret)
        /\ \A i \in 1..Len(fb.secret) : i > Len(fb.guess) => fb.result[i] = RED
        /\ Len(fb.guess) > Len(fb.secret) =>
               IsReferenceFeedback(fb.secret, SubSeq(fb.guess, 1, Len(fb.secret)),
                                   fb.result)
        /\ \A n \in 0..Len(fb.secret) :
               /\ CountsNotNegative(FirstPass(fb.secret, fb.guess, n))
               /\ CountsNotNegative(SecondPass(fb.secret, fb.guess, n))

\* a guess one letter shorter than the secret: two greens, then red
C28_Witness ==
    /\ fb.done
    /\ fb.secret = <<"A", "P", "E">>
    /\ fb.guess = <<"A", "P">>
    /\ fb.result = <<GREEN, GREEN, RED>>

\* a guess longer than the secret whose third letter would have been green
C28_WitnessLonger ==
    /\ fb.done
    /\ fb.secret = <<"P", "A">>
    /\ fb.guess = <<"A", "A", "P">>
    /\ fb.result = <<RED, GREEN>>
    /\ SecondPass(fb.secret, fb.guess, 2).remaining_letters["A"] = 0

\* a guess that repeats a letter the secret has once: the count of the letter
\* is used up by the green and stays at zero
C28_WitnessUsedUp ==
    /\ fb.done
    /\ Len(fb.guess) < Len(fb.secret)
    /\ \E i, j \in 1..Len(fb.guess) :
           /\ i < j
           /\ fb.guess[i] = fb.guess[j]
           /\ fb.result[i] = GREEN
           /\ fb.result[j] = RED
           /\ SecondPass(fb.secret, fb.guess, Len(fb.secret)).remaining_letters[fb.guess[i]] = 0

====
